---- MODULE Spec2Model ----
(***************************************************************************)
(* A model of pyhacrf.py: the state-machine driven lattice builder, the    *)
(* forward pass over a built lattice, and Hacrf.fit with the objective it  *)
(* hands to the optimizer.                                                 *)
(*                                                                         *)
(* Python tuples are TLA+ sequences: a node is <<i, j, s>>, an edge is     *)
(* <<i0, j0, i1, j1, s0, s1, parameter_index>>.  Python positions, state   *)
(* ids and column indices are kept 0-based; only the positions of a        *)
(* sequence (a Python list) are 1-based.                                   *)
(***************************************************************************)
EXTENDS Integers, Sequences, FiniteSets, TLC

\* Bounds of the model.
MaxI == 2          \* string1_length ranges over 0..MaxI
MaxJ == 2          \* string2_length ranges over 0..MaxJ
MaxClasses == 2    \* the default state machine is built for 0..MaxClasses classes
MaxSeed == 1       \* feature tensors and parameter matrices are drawn from 0..MaxSeed
MaxLattice == 400  \* the worklist loop is followed while the lattice is shorter
MaxExamples == 2   \* fit is called with 0..MaxExamples tensors and labels
MaxCalls == 2      \* the optimizer evaluates the objective at most this often

NFeatures == 1     \* n_features of every tensor

VARIABLES
    I, J,               \* x.shape[0], x.shape[1]
    x,                  \* the feature tensor, [<<i, j, f>> -> number]
    state_machine,      \* [states, transitions]
    unvisited_nodes,    \* the worklist of _build_lattice
    lattice,            \* the list under construction, then the sorted result
    pc,                 \* "loop", "built", "forwarded"
    parameters,         \* the matrix forward_backward was called with
    alpha,              \* the defaultdict of forward_backward
    fb_status,          \* how forward_backward ended
    X, y,               \* the arguments of fit: tensors [I, J, x] and labels
    fit_pc,             \* "called", "optimizing", "raised", "returned"
    fit_error,          \* the exception fit ended with
    self_parameters,    \* Hacrf.parameters
    models,             \* the list of _Model objects of fit
    derivative,         \* the gradient accumulator closed over by _objective
    objective_log       \* the calls of _objective: [parameters, status, value]

lvars == <<I, J, x, state_machine, unvisited_nodes, lattice, pc, parameters,
           alpha, fb_status>>
fvars == <<X, y, fit_pc, fit_error, self_parameters, models, derivative,
           objective_log>>
vars == <<lvars, fvars>>

None == "None"

----------------------------------------------------------------------------
(* State machines *)

Fixed(di, dj) == [kind |-> "fixed", di |-> di, dj |-> dj]
Computed(f) == [kind |-> "callable", f |-> f]
Transition(s0, s1, delta) == [s0 |-> s0, s1 |-> s1, delta |-> delta]

\* [(i, i, d) for i in xrange(n_classes)]
RECURSIVE SelfTransitions(_, _, _)
SelfTransitions(k, n, delta) ==
    IF k >= n THEN <<>>
    ELSE <<Transition(k, k, delta)>> \o SelfTransitions(k + 1, n, delta)

\* tuple(i for i in xrange(n_classes))
RECURSIVE XRangeTuple(_, _)
XRangeTuple(k, n) == IF k >= n THEN <<>> ELSE <<k>> \o XRangeTuple(k + 1, n)

\* Hacrf._default_state_machine: the states list holds ONE element, the tuple
\* of start states; the transitions are match, insertion, deletion per class.
DefaultStateMachine(n_classes) ==
    [states |-> << XRangeTuple(0, n_classes) >>,
     transitions |-> SelfTransitions(0, n_classes, Fixed(1, 1))
                  \o SelfTransitions(0, n_classes, Fixed(0, 1))
                  \o SelfTransitions(0, n_classes, Fixed(1, 0))]

\* A machine with a state that is no start state, cross-state transitions and
\* a step of two.
CrossStateMachine ==
    [states |-> << <<0>>, 1 >>,
     transitions |-> << Transition(0, 1, Fixed(1, 1)),
                        Transition(1, 1, Fixed(0, 1)),
                        Transition(1, 0, Fixed(1, 0)),
                        Transition(0, 0, Fixed(2, 0)) >>]

\* A machine whose deltas are callables of the position.
CallableStateMachine ==
    [states |-> << <<0, 1>> >>,
     transitions |-> << Transition(0, 0, Computed("jpar")),
                        Transition(0, 1, Fixed(0, 1)),
                        Transition(1, 1, Computed("ipar")),
                        Transition(1, 0, Fixed(1, 0)) >>]

\* A machine with a transition that consumes nothing: its delta is (0, 0).
ZeroDeltaStateMachine ==
    [states |-> << <<0>> >>,
     transitions |-> << Transition(0, 0, Fixed(1, 1)),
                        Transition(0, 0, Fixed(0, 0)) >>]

\* The callables: lambda i, j, x: (1 + j % 2, 1) and lambda i, j, x: (i % 2, 1).
CallDelta(f, i, j, xx) ==
    IF f = "jpar" THEN <<1 + (j % 2), 1>> ELSE <<i % 2, 1>>

\* lines 133-136: di, dj = delta(i, j, x) if callable(delta) else delta
EvalDelta(delta, i, j, xx) ==
    IF delta.kind = "callable" THEN CallDelta(delta.f, i, j, xx)
    ELSE <<delta.di, delta.dj>>

----------------------------------------------------------------------------
(* _build_lattice *)

\* A bound test off by one: <= in place of <.
InBoundsInclusive(i, j, II, JJ) == i <= II /\ j <= JJ

\* line 137
InBounds(i, j, II, JJ) == i < II /\ j < JJ

\* line 126
NStates(states) == Len(states) - 1 + Len(states[1])

\* line 125
RECURSIVE StartNodes(_)
StartNodes(start) ==
    IF start = <<>> THEN <<>>
    ELSE << <<0, 0, Head(start)>> >> \o StartNodes(Tail(start))

\* line 138
Edge(i, j, di, dj, s0, s1, transition_index, n_states) ==
    <<i, j, i + di, j + dj, s0, s1, transition_index + n_states>>

\* lines 131-139: the for loop over enumerate(transitions), from the k-th
\* transition on (transition_index = k - 1); acc = [lattice, unvisited_nodes].
RECURSIVE ForTransitions(_, _, _, _, _, _, _, _)
ForTransitions(k, node, II, JJ, xx, sm, n_states, acc) ==
    IF k > Len(sm.transitions) THEN acc
    ELSE
      LET t == sm.transitions[k]
          i == node[1]
          j == node[2]
          s == node[3]
          d == EvalDelta(t.delta, i, j, xx)
          taken == s = t.s0 /\ InBounds(i + d[1], j + d[2], II, JJ)
          next ==
            IF taken
            THEN [lattice |-> Append(acc.lattice,
                                     Edge(i, j, d[1], d[2], t.s0, t.s1, k - 1, n_states)),
                  unvisited_nodes |-> Append(acc.unvisited_nodes,
                                             <<i + d[1], j + d[2], t.s1>>)]
            ELSE acc
      IN ForTransitions(k + 1, node, II, JJ, xx, sm, n_states, next)

\* The head read without being removed: unvisited_nodes[0] for pop(0).
PeekFront(q) == q

\* line 129: what unvisited_nodes.pop(0) leaves in the list
PopFront(q) == Tail(q)

\* lines 129-139: one iteration of the while loop
LoopBody(unvisited, lat, II, JJ, xx, sm) ==
    LET node == Head(unvisited)
    IN ForTransitions(1, node, II, JJ, xx, sm, NStates(sm.states),
                      [lattice |-> Append(lat, node),
                       unvisited_nodes |-> PopFront(unvisited)])

\* Python's order on tuples of integers: lexicographic, a proper prefix first.
RECURSIVE TupleLess(_, _, _)
TupleLess(a, b, k) ==
    IF k > Len(a) THEN k <= Len(b)
    ELSE IF k > Len(b) THEN FALSE
    ELSE IF a[k] < b[k] THEN TRUE
    ELSE IF a[k] > b[k] THEN FALSE
    ELSE TupleLess(a, b, k + 1)

\* The place of s[k] in the sorted list: the number of elements that are
\* smaller, or equal and not later in s (sorted is stable).
Rank(s, k) ==
    Cardinality({m \in DOMAIN s :
                   \/ TupleLess(s[m], s[k], 1)
                   \/ (~TupleLess(s[k], s[m], 1) /\ m <= k)})

\* line 141: sorted(lattice) keeps every element of the list
Sorted(s) ==
    CHOOSE out \in {[p \in DOMAIN s |-> s[CHOOSE k \in DOMAIN s : rank[k] = p]] :
                       rank \in {[k \in DOMAIN s |-> Rank(s, k)]}} : TRUE

----------------------------------------------------------------------------
(* Inputs *)

ZeroTo(n) == 0 .. n

\* The feature tensor of shape (II, JJ, NFeatures) drawn by a seed.
Tensor(II, JJ, seed) ==
    [p \in (0 .. II - 1) \X (0 .. JJ - 1) \X (0 .. NFeatures - 1)
        |-> (p[1] + p[2] + p[3] + seed) % 2]

NMachines == MaxClasses + 4

Machine(m) ==
    IF m <= MaxClasses THEN DefaultStateMachine(m)
    ELSE IF m = MaxClasses + 1 THEN CrossStateMachine
    ELSE IF m = MaxClasses + 2 THEN CallableStateMachine
    ELSE ZeroDeltaStateMachine

----------------------------------------------------------------------------
(* forward_backward *)

\* Hacrf._initialize_parameters: the shape of the matrix.  n_states is
\* len(state_machine[0]), the length of the states LIST.
ParameterColumns(sm) == Len(sm.states) + Len(sm.transitions)

\* A matrix of shape (NFeatures, ParameterColumns(sm)); seed 0 is np.zeros,
\* the matrix fit starts from, the other seeds are points an optimizer may try.
ParameterMatrix(sm, seed) ==
    [n_columns |-> ParameterColumns(sm),
     at |-> [p \in (0 .. NFeatures - 1) \X (0 .. ParameterColumns(sm) - 1)
                |-> (seed * (p[1] + p[2] + 1)) % 2]]

\* np.exp on the integers the model computes with.  The base is 2 in place of
\* e: exp(0) = 1, exp(a + b) = exp(a) * exp(b) and monotonicity are kept.
RECURSIVE Exp(_)
Exp(k) == IF k <= 0 THEN 1 ELSE 2 * Exp(k - 1)

\* np.dot(x[i, j, :], parameters[:, c]), summed from feature f on
RECURSIVE DotFrom(_, _, _, _, _, _)
DotFrom(f, xx, prm, i, j, c) ==
    IF f >= NFeatures THEN 0
    ELSE xx[<<i, j, f>>] * prm.at[<<f, c>>] + DotFrom(f + 1, xx, prm, i, j, c)

\* alpha = defaultdict(float): a missing key reads 0.0
Get(al, key) == IF key \in DOMAIN al THEN al[key] ELSE 0
Put(al, key, v) ==
    [k \in (DOMAIN al) \cup {key} |-> IF k = key THEN v ELSE al[k]]
EmptyDict == [k \in {} |-> 0]

\* x[i, j, :] and parameters[:, c] raise IndexError outside the arrays
CanIndex(II, JJ, prm, i, j, c) == i < II /\ j < JJ /\ c < prm.n_columns

\* lines 107-108
NodeRule(al, node, II, JJ, xx, prm) ==
    IF Len(node) # 3 THEN [status |-> "ValueError", alpha |-> al]
    ELSE IF ~CanIndex(II, JJ, prm, node[1], node[2], node[3])
    THEN [status |-> "IndexError", alpha |-> al]
    ELSE [status |-> "ok",
          alpha |-> Put(al, node, Get(al, node)
                        + Exp(DotFrom(0, xx, prm, node[1], node[2], node[3])))]

\* lines 110-115
EdgeRule(al, node, II, JJ, xx, prm) ==
    IF Len(node) # 7 THEN [status |-> "ValueError", alpha |-> al]
    ELSE IF ~CanIndex(II, JJ, prm, node[3], node[4], node[7])
    THEN [status |-> "IndexError", alpha |-> al]
    ELSE
      LET source == <<node[1], node[2], node[5]>>
          dest == <<node[3], node[4], node[6]>>
          edge_potential ==
              Exp(DotFrom(0, xx, prm, node[3], node[4], node[7]) * Get(al, source))
          \* reading alpha[(i0, j0, s0)] inserts the key
          al1 == Put(al, source, Get(al, source))
          al2 == Put(al1, node, edge_potential)
      IN [status |-> "ok",
          alpha |-> Put(al2, dest, Get(al2, dest) + edge_potential)]

\* line 106: the test that picks the node branch
IsNodeEntry(node) == Len(node) < 3

\* lines 106-115: one iteration of the for loop over self._lattice
ForwardStep(al, node, II, JJ, xx, prm) ==
    IF IsNodeEntry(node) THEN NodeRule(al, node, II, JJ, xx, prm)
    ELSE EdgeRule(al, node, II, JJ, xx, prm)

\* lines 104-115: the loop from entry k on; an exception leaves the loop
RECURSIVE ForwardFrom(_, _, _, _, _, _, _)
ForwardFrom(k, lat, al, II, JJ, xx, prm) ==
    IF k > Len(lat) THEN [status |-> "ok", alpha |-> al, at |-> k]
    ELSE
      LET r == ForwardStep(al, lat[k], II, JJ, xx, prm)
      IN IF r.status # "ok" THEN [status |-> r.status, alpha |-> r.alpha, at |-> k]
         ELSE ForwardFrom(k + 1, lat, r.alpha, II, JJ, xx, prm)

ForwardPass(lat, II, JJ, xx, prm) == ForwardFrom(1, lat, EmptyDict, II, JJ, xx, prm)

----------------------------------------------------------------------------
(* One model: _Model.__init__ builds the lattice, then forward_backward runs *)

Init ==
    /\ I \in ZeroTo(MaxI)
    /\ J \in ZeroTo(MaxJ)
    /\ \E seed \in ZeroTo(MaxSeed) : x = Tensor(I, J, seed)
    /\ \E m \in 0 .. NMachines - 1 : state_machine = Machine(m)
    /\ unvisited_nodes = StartNodes(state_machine.states[1])
    /\ lattice = <<>>
    /\ pc = "loop"
    /\ parameters = None
    /\ alpha = EmptyDict
    /\ fb_status = None
    /\ X = <<>> /\ y = <<>>
    /\ fit_pc = None /\ fit_error = None /\ self_parameters = None
    /\ models = <<>> /\ derivative = None /\ objective_log = <<>>

\* lines 128-139: one iteration of `while unvisited_nodes`
Iterate ==
    /\ pc = "loop"
    /\ unvisited_nodes # <<>>
    /\ Len(lattice) < MaxLattice
    /\ LET r == LoopBody(unvisited_nodes, lattice, I, J, x, state_machine)
       IN /\ lattice' = r.lattice
          /\ unvisited_nodes' = r.unvisited_nodes
    /\ UNCHANGED <<I, J, x, state_machine, pc, parameters, alpha, fb_status>>
    /\ UNCHANGED fvars

\* line 141: the loop is left and the sorted list returned
Return ==
    /\ pc = "loop"
    /\ unvisited_nodes = <<>>
    /\ lattice' = Sorted(lattice)
    /\ pc' = "built"
    /\ UNCHANGED <<I, J, x, state_machine, unvisited_nodes, parameters, alpha,
                   fb_status>>
    /\ UNCHANGED fvars

\* lines 102-115: forward_backward(parameters) over the built lattice
ForwardBackward ==
    /\ pc = "built"
    /\ \E seed \in ZeroTo(MaxSeed) :
         LET prm == ParameterMatrix(state_machine, seed)
             r == ForwardPass(lattice, I, J, x, prm)
         IN /\ parameters' = prm
            /\ alpha' = r.alpha
            /\ fb_status' = r.status
    /\ pc' = "forwarded"
    /\ UNCHANGED <<I, J, x, state_machine, unvisited_nodes, lattice>>
    /\ UNCHANGED fvars

Next == Iterate \/ Return \/ ForwardBackward

Spec == Init /\ [][Next]_vars

\* The interpreter runs the loop on: no iteration waits for anything.
FairSpec == Spec /\ WF_vars(Iterate) /\ WF_vars(Return)

----------------------------------------------------------------------------
(* Hacrf.fit and the objective it hands to fmin_l_bfgs_b *)

\* lines 128-141 run to the end: the list _build_lattice returns; the set of
\* one element has each iteration computed once.
RECURSIVE RunLoop(_, _, _, _, _, _)
RunLoop(unvisited, lat, II, JJ, xx, sm) ==
    IF unvisited = <<>> \/ Len(lat) >= MaxLattice THEN Sorted(lat)
    ELSE CHOOSE out \in {RunLoop(r.unvisited_nodes, r.lattice, II, JJ, xx, sm) :
                            r \in {LoopBody(unvisited, lat, II, JJ, xx, sm)}} : TRUE

\* lines 118-141
BuildLattice(II, JJ, xx, sm) ==
    RunLoop(StartNodes(sm.states[1]), <<>>, II, JJ, xx, sm)

\* lines 95-100: _Model(state_machine, classes, x, y)
NewModel(sm, classes, example, label) ==
    [state_machine |-> sm, classes |-> classes, x |-> example, y |-> label,
     lattice |-> BuildLattice(example.I, example.J, example.x, sm)]

Min(a, b) == IF a < b THEN a ELSE b

\* line 52: one model per pair of zip(X, y)
Models(sm, classes, XX, yy) ==
    [k \in 1 .. Min(Len(XX), Len(yy)) |-> NewModel(sm, classes, XX[k], yy[k])]

\* line 40: set(y)
Classes(yy) == {yy[k] : k \in DOMAIN yy}

\* A test that catches only missing examples: < in place of !=.
CountsDifferOneWay(n_examples, n_points) == n_examples < n_points

\* line 42: the test that makes fit raise
CountsDiffer(n_examples, n_points) == n_examples # n_points

\* line 54: np.zeros(self.parameters.shape)
Zeros(prm) == [p \in DOMAIN prm.at |-> 0]

Negated(d) == [p \in DOMAIN d |-> 0 - d[p]]

\* lines 58-64 from the k-th model on.  _Model defines neither add_derivative
\* nor ll: a pass that completes is followed by AttributeError at line 62.
RECURSIVE ObjectiveFrom(_, _, _, _, _)
ObjectiveFrom(k, ms, prm, ll, deriv) ==
    IF k > Len(ms)
    THEN [status |-> "returned", value |-> <<0 - ll, Negated(deriv)>>,
          derivative |-> deriv]
    ELSE
      LET m == ms[k]
          r == ForwardPass(m.lattice, m.x.I, m.x.J, m.x.x, prm)
      IN IF r.status # "ok"
         THEN [status |-> r.status, value |-> None, derivative |-> deriv]
         ELSE [status |-> "AttributeError", value |-> None, derivative |-> deriv]

\* lines 56-64: derivative.fill(0.0), then the loop over the models
Objective(ms, prm) == ObjectiveFrom(1, ms, prm, 0, Zeros(prm))

\* The tensors fit is called with: a single cell, a single row, a square.
Examples ==
    {[I |-> sh[1], J |-> sh[2], x |-> Tensor(sh[1], sh[2], 0)] :
        sh \in {<<1, 1>>, <<1, 2>>, <<2, 2>>}}

Labels == 1 .. MaxClasses

SeqsUpTo(S, n) == UNION {[1 .. k -> S] : k \in 0 .. n}

FitInit ==
    /\ X \in SeqsUpTo(Examples, MaxExamples)
    /\ y \in SeqsUpTo(Labels, MaxExamples)
    /\ fit_pc = "called"
    /\ fit_error = None
    /\ self_parameters = None
    /\ models = <<>>
    /\ derivative = None
    /\ objective_log = <<>>
    /\ I = 0 /\ J = 0 /\ x = Tensor(0, 0, 0)
    /\ state_machine = DefaultStateMachine(0)
    /\ unvisited_nodes = <<>> /\ lattice = <<>> /\ pc = None
    /\ parameters = None /\ alpha = EmptyDict /\ fb_status = None

\* lines 40-54: fit up to the call of the optimizer
Fit ==
    /\ fit_pc = "called"
    /\ LET classes == Classes(y)
           sm == DefaultStateMachine(Cardinality(classes))
       IN IF CountsDiffer(Len(X), Len(y))
          THEN /\ fit_pc' = "raised"
               /\ fit_error' = "Exception"
               /\ UNCHANGED <<self_parameters, models, derivative>>
          ELSE IF Len(X) = 0
          THEN \* line 49: X[0] of an empty list
               /\ fit_pc' = "raised"
               /\ fit_error' = "IndexError"
               /\ UNCHANGED <<self_parameters, models, derivative>>
          ELSE /\ self_parameters' = ParameterMatrix(sm, 0)
               /\ models' = Models(sm, classes, X, y)
               /\ derivative' = Zeros(ParameterMatrix(sm, 0))
               /\ fit_pc' = "optimizing"
               /\ UNCHANGED fit_error
    /\ UNCHANGED <<X, y, objective_log>>
    /\ UNCHANGED lvars

\* line 66: fmin_l_bfgs_b evaluates _objective, first at self.parameters; an
\* exception of the objective leaves fit, a value lets the optimizer go on
\* or return.
OptimizerCall ==
    /\ fit_pc = "optimizing"
    /\ Len(objective_log) < MaxCalls
    /\ \E seed \in ZeroTo(MaxSeed) :
         /\ objective_log = <<>> => seed = 0
         /\ LET prm == ParameterMatrix(models[1].state_machine, seed)
                r == Objective(models, prm)
            IN /\ derivative' = r.derivative
               /\ objective_log' = Append(objective_log,
                      [parameters |-> prm, status |-> r.status, value |-> r.value])
               /\ IF r.status = "returned"
                  THEN /\ fit_pc' \in {"optimizing", "returned"}
                       /\ UNCHANGED fit_error
                  ELSE /\ fit_pc' = "raised"
                       /\ fit_error' = r.status
    /\ UNCHANGED <<X, y, self_parameters, models>>
    /\ UNCHANGED lvars

FitNext == Fit \/ OptimizerCall

FitSpec == FitInit /\ [][FitNext]_vars

----------------------------------------------------------------------------
(* Properties *)

Built == pc \in {"built", "forwarded"}
Entries == {lattice[k] : k \in DOMAIN lattice}
IsNode(e) == Len(e) = 3
IsEdge(e) == Len(e) = 7
Source(e) == <<e[1], e[2], e[5]>>
Destination(e) == <<e[3], e[4], e[6]>>

\* The state machine is the one _default_state_machine makes for some classes.
IsDefault(sm) ==
    /\ Len(sm.states) = 1
    /\ Len(sm.transitions) = 3 * Len(sm.states[1])
    /\ sm.transitions = DefaultStateMachine(Len(sm.states[1])).transitions

\* Only match, insertion and deletion self-transitions.
OnlyEditSelfTransitions(sm) ==
    \A k \in DOMAIN sm.transitions :
        LET t == sm.transitions[k]
        IN /\ t.s0 = t.s1
           /\ t.delta.kind = "fixed"
           /\ <<t.delta.di, t.delta.dj>> \in {<<1, 1>>, <<0, 1>>, <<1, 0>>}

\* Every delta, fixed or computed at a position of the tensor, is a pair of
\* non-negative integers other than (0, 0).
DeltasAdvance(sm) ==
    \A k \in DOMAIN sm.transitions : \A i \in 0 .. I : \A j \in 0 .. J :
        LET d == EvalDelta(sm.transitions[k].delta, i, j, x)
        IN d[1] >= 0 /\ d[2] >= 0 /\ d # <<0, 0>>

\* C1: the list _build_lattice returns is sorted lexicographically and holds
\* no tuple twice.
C1_SortedAndDistinct ==
    Built =>
      /\ \A k \in 1 .. Len(lattice) - 1 : ~TupleLess(lattice[k + 1], lattice[k], 1)
      /\ \A k, m \in DOMAIN lattice : k # m => lattice[k] # lattice[m]

\* C2: for a default state machine the returned list is a topological order:
\* before each edge come its source node and every edge into that node, after
\* it comes its destination node.
C2_TopologicalOrder ==
    (Built /\ IsDefault(state_machine)) =>
      \A k \in DOMAIN lattice :
        IsEdge(lattice[k]) =>
          /\ \E m \in DOMAIN lattice : lattice[m] = Source(lattice[k])
          /\ \E m \in DOMAIN lattice : lattice[m] = Destination(lattice[k])
          /\ \A m \in DOMAIN lattice :
               /\ lattice[m] = Source(lattice[k]) => m < k
               /\ (IsEdge(lattice[m]) /\ Destination(lattice[m]) = Source(lattice[k]))
                     => m < k
               /\ lattice[m] = Destination(lattice[k]) => m > k

\* C3: once fit has made the parameter matrix and the lattices for n >= 1
\* classes, the matrix has n + 3n columns, every node's state id is in [0, n),
\* every edge's parameter index is n + transition_index, in [n, 4n), and inside
\* the matrix.
C3_ColumnsAgree ==
    fit_pc = "optimizing" =>
      LET n == Cardinality(Classes(y))
      IN /\ self_parameters.n_columns = n + 3 * n
         /\ \A k \in DOMAIN models : \A e \in {models[k].lattice[p] :
                                                 p \in DOMAIN models[k].lattice} :
              /\ IsNode(e) => e[3] >= 0 /\ e[3] < n
              /\ IsEdge(e) =>
                   /\ e[7] >= n /\ e[7] < n + 3 * n
                   /\ e[7] < self_parameters.n_columns
                   /\ LET t == models[k].state_machine.transitions[e[7] - n + 1]
                      IN /\ t.s0 = e[5] /\ t.s1 = e[6]
                         /\ <<t.delta.di, t.delta.dj>> = <<e[3] - e[1], e[4] - e[2]>>

\* The forward score the specification defines: the local potential at a start
\* node, else the sum over the incoming edges of potential * alpha[source].
StartStates == {state_machine.states[1][k] : k \in DOMAIN state_machine.states[1]}
IsStart(node) == node[1] = 0 /\ node[2] = 0 /\ node[3] \in StartStates

RECURSIVE SpecAlpha(_)
RECURSIVE SumInto(_, _)
SumInto(edges, node) ==
    IF edges = {} THEN 0
    ELSE LET e == CHOOSE e \in edges : TRUE
         IN Exp(DotFrom(0, x, parameters, e[3], e[4], e[7])) * SpecAlpha(Source(e))
            + SumInto(edges \ {e}, node)
SpecAlpha(node) ==
    IF IsStart(node)
    THEN Exp(DotFrom(0, x, parameters, node[1], node[2], node[3]))
    ELSE SumInto({e \in Entries : IsEdge(e) /\ Destination(e) = node}, node)

\* C4: over the lattice of a tensor with positive lengths forward_backward
\* completes without raising, and afterwards alpha of every node is the
\* forward score: the local potential at a start node, the sum of
\* edge_potential * alpha[source] over the incoming edges elsewhere.
C4_ForwardScores ==
    (pc = "forwarded" /\ I >= 1 /\ J >= 1) =>
      /\ fb_status = "ok"
      /\ \A e \in Entries : IsNode(e) => Get(alpha, e) = SpecAlpha(e)

\* C5: every call of the objective returns its pair, computed from a zeroed
\* accumulator, and two calls with the same parameters return the same pair.
C5_ObjectiveReturns ==
    \A k \in DOMAIN objective_log :
      /\ objective_log[k].status = "returned"
      /\ \A m \in DOMAIN objective_log :
           objective_log[m].parameters = objective_log[k].parameters
              => objective_log[m].value = objective_log[k].value

\* C6: with only match, insertion and deletion self-transitions, every node
\* and both endpoints of every edge of the built lattice lie in
\* [0, I) x [0, J), for every shape, zero lengths included.
C6_NodesInsideTensor ==
    (Built /\ OnlyEditSelfTransitions(state_machine)) =>
      \A e \in Entries :
        /\ IsNode(e) => e[1] >= 0 /\ e[1] < I /\ e[2] >= 0 /\ e[2] < J
        /\ IsEdge(e) => /\ e[1] >= 0 /\ e[1] < I /\ e[2] >= 0 /\ e[2] < J
                        /\ e[3] >= 0 /\ e[3] < I /\ e[4] >= 0 /\ e[4] < J

\* C7: for a tensor with string1_length = 0 or string2_length = 0 the lattice
\* construction followed by the forward pass ends without an exception and
\* alpha holds no position outside the tensor.
C7_DegenerateNoError ==
    (pc = "forwarded" /\ (I = 0 \/ J = 0)) =>
      /\ fb_status = "ok"
      /\ \A key \in DOMAIN alpha : key[1] < I /\ key[2] < J

\* C8: when the numbers of examples and labels differ, fit ends with the
\* exception of line 43, no model is constructed, self.parameters stays None
\* and the objective is never called.
C8_MismatchFailsFast ==
    Len(X) # Len(y) =>
      /\ fit_pc \in {"called", "raised"}
      /\ fit_pc = "raised" => fit_error = "Exception"
      /\ models = <<>>
      /\ self_parameters = None
      /\ objective_log = <<>>

C8_Witness ==
    /\ Len(X) # Len(y)
    /\ Len(X) > 0
    /\ fit_pc = "raised"

\* The nodes reachable from the start nodes by transitions whose destination
\* is inside the tensor.
RECURSIVE ReachableFrom(_)
ReachableFrom(S) ==
    LET step == {<<n[1] + d[1], n[2] + d[2], t.s1>> :
                    <<n, t, d>> \in
                      {<<n, t, EvalDelta(t.delta, n[1], n[2], x)>> :
                          <<n, t>> \in {p \in S \X {state_machine.transitions[k] :
                                                     k \in DOMAIN state_machine.transitions} :
                                          p[1][3] = p[2].s0}}}
        inside == {n \in step : n[1] < I /\ n[2] < J}
    IN IF inside \subseteq S THEN S ELSE ReachableFrom(S \cup inside)

ClosureNodes == ReachableFrom({<<0, 0, s>> : s \in StartStates})

\* The applications of a transition at a node of the closure that stay inside.
ClosureEdges ==
    {e \in {LET t == state_machine.transitions[p[2]]
                d == EvalDelta(t.delta, p[1][1], p[1][2], x)
            IN IF p[1][3] = t.s0 /\ p[1][1] + d[1] < I /\ p[1][2] + d[2] < J
               THEN <<p[1][1], p[1][2], p[1][1] + d[1], p[1][2] + d[2], t.s0, t.s1,
                      (p[2] - 1) + Len(state_machine.states) - 1
                          + Len(state_machine.states[1])>>
               ELSE <<>> :
            p \in ClosureNodes \X DOMAIN state_machine.transitions} : e # <<>>}

\* C9: as a set the returned lattice is the reachability closure of the state
\* machine inside the tensor, and both endpoints of every edge are nodes of it.
C9_LatticeIsClosure ==
    Built =>
      /\ Entries = ClosureNodes \cup ClosureEdges
      /\ \A e \in Entries :
           IsEdge(e) => Source(e) \in Entries /\ Destination(e) \in Entries

C9_Witness ==
    /\ pc = "built"
    /\ I >= 2 /\ J >= 2
    /\ \E e \in Entries : IsEdge(e) /\ e[5] # e[6]
    /\ Len(lattice) > Cardinality(Entries)

\* C10: for a state machine whose deltas are non-negative and never (0, 0) the
\* worklist loop ends, for every tensor shape.
C10_LoopTerminates ==
    <>(pc # "loop" \/ ~DeltasAdvance(state_machine))

C10_Witness ==
    /\ pc = "built"
    /\ DeltasAdvance(state_machine)
    /\ I >= 2 /\ J >= 2
    /\ \E e \in Entries :
          /\ IsEdge(e)
          /\ state_machine.transitions[e[7] - NStates(state_machine.states) + 1]
                .delta.kind = "callable"

====
